---------------------------- MODULE Spec2Model ----------------------------
(***************************************************************************)
(* A model of ordinal_mapping.py: the valuation f of ordinals below        *)
(* epsilon_0, the successor add_one_to_ordinal, the finite valuation       *)
(* f_finite and the process-wide cache memo.                               *)
(*                                                                         *)
(* Python values are encoded as sequences headed by their type:            *)
(*   int n            <<"int", n>>                                         *)
(*   None             <<"none">>                                           *)
(*   str s            <<"str", s>>                                         *)
(*   tuple (x1..xn)   <<"tuple", x1, ..., xn>>   (each xi a Python value)  *)
(* so ('pow', 1) is <<"tuple", <<"str","pow">>, <<"int",1>>>>.             *)
(*                                                                         *)
(* Python floats are modelled as exact rationals <<num, den>> in lowest    *)
(* terms with den > 0: the model is of the real-number arithmetic the      *)
(* program approximates, not of IEEE rounding.                             *)
(*                                                                         *)
(* An outcome carries err, the name of the Python exception raised, or     *)
(* "none" when the call returned.  f takes, besides its argument, the      *)
(* cache it runs against and the number of frames of recursion left, and   *)
(* returns the cache it leaves as part of its outcome.                     *)
(***************************************************************************)
EXTENDS Integers, Sequences, FiniteSets, TLC

VARIABLES memo, last, returned, ncalls, succ, steps

vars == <<memo, last, returned, ncalls, succ, steps>>

(***************************************************************************)
(* Bounds of the model.                                                    *)
(***************************************************************************)
MaxFinite == 3
MaxCoeff == 3
MaxCalls == 2
MaxSteps == 3
RecursionLimit == 12

(***************************************************************************)
(* Python values.                                                          *)
(***************************************************************************)
IntV(n) == <<"int", n>>
Str(s) == <<"str", s>>
NoneVal == <<"none">>
Tup(elems) == <<"tuple">> \o elems

IsInt(v) == v[1] = "int"
IsTuple(v) == v[1] = "tuple"
IsStr(v) == v[1] = "str"
Elems(v) == Tail(v)

Pow(k) == Tup(<<Str("pow"), k>>)
Sum(beta, c, delta) == Tup(<<Str("sum"), beta, IntV(c), delta>>)

ORDINAL_ZERO == IntV(0)
ORDINAL_ONE == IntV(1)

is_finite_ordinal(ordinal_rep) == IsInt(ordinal_rep)

(***************************************************************************)
(* Exact rational arithmetic standing for the program's float arithmetic.  *)
(***************************************************************************)
Abs(x) == IF x < 0 THEN -x ELSE x

RECURSIVE Gcd(_, _)
Gcd(a, b) == IF b = 0 THEN a ELSE Gcd(b, a % b)

Rat(n, d) ==
  LET g == Gcd(Abs(n), Abs(d))
      s == IF d < 0 THEN -1 ELSE 1
  IN  <<(s * n) \div g, (s * d) \div g>>

RZero == <<0, 1>>
RInt(n) == <<n, 1>>
RAdd(x, y) ==
  LET g == Gcd(x[2], y[2])
  IN  Rat(x[1] * (y[2] \div g) + y[1] * (x[2] \div g), (x[2] \div g) * y[2])
RNeg(x) == <<-x[1], x[2]>>
RSub(x, y) == RAdd(x, RNeg(y))
RMul(x, y) ==
  LET a == Rat(x[1], y[2])
      b == Rat(y[1], x[2])
  IN  <<a[1] * b[1], a[2] * b[2]>>
RDiv(x, y) == RMul(x, Rat(y[2], y[1]))
RLess(x, y) == RSub(x, y)[1] < 0
RLeq(x, y) == RSub(x, y)[1] <= 0

\* abs(x) < 1e-9: |n|/d < 1/10^9 iff |n| * 10^9 <= d - 1
NearZero(x) == Abs(x[1]) <= (x[2] - 1) \div 1000000000


(***************************************************************************)
(* Outcomes.  A helper returns [err, val]; a call of f returns, besides,   *)
(* the cache it leaves, the number of calls of f made below it, and the    *)
(* representations whose evaluation the exception unwound.                 *)
(***************************************************************************)
Value(v) == [err |-> "none", val |-> v]
Error(e) == [err |-> e, val |-> NoneVal]

Return(v, m, n) ==
  [err |-> "none", val |-> v, memo |-> m, calls |-> n, aborted |-> {}]
Raise(e, m, n) ==
  [err |-> e, val |-> RZero, memo |-> m, calls |-> n, aborted |-> {}]
\* the outcome r of a nested call of f, seen by a caller that had already
\* made n calls: an exception passes through the caller unchanged
Nested(r, n) == [r EXCEPT !.calls = @ + n + 1]
\* the exception r leaving the call f(alpha_rep): nothing is stored for it
Unwind(r, alpha_rep) == [r EXCEPT !.aborted = @ \cup {alpha_rep}]

\* faulty variant: the ordinal n valued as n+1
f_finite_OffByOne(n_int) ==
  IF ~IsInt(n_int) \/ n_int[2] < 0 THEN Error("ValueError")
  ELSE IF n_int = ORDINAL_ZERO THEN Value(RZero)
  ELSE Value(Rat(n_int[2] + 1, n_int[2] + 2))

f_finite(n_int) ==
  IF ~IsInt(n_int) \/ n_int[2] < 0 THEN Error("ValueError")
  ELSE IF n_int = ORDINAL_ZERO THEN Value(RZero)
  ELSE Value(Rat(n_int[2], n_int[2] + 1))

RECURSIVE add_one_to_ordinal(_)
\* faulty variant: omega^k + 1 built on the whole of beta instead of on its exponent k
RECURSIVE add_one_to_ordinal_WholeBeta(_)
add_one_to_ordinal_WholeBeta(beta_ord_rep) ==
  IF is_finite_ordinal(beta_ord_rep) THEN Value(IntV(beta_ord_rep[2] + 1))
  \* type_str, *args = beta_ord_rep
  ELSE IF beta_ord_rep = NoneVal THEN Error("TypeError")
  ELSE IF IsStr(beta_ord_rep)
    THEN (IF beta_ord_rep[2] = "" THEN Error("ValueError") ELSE Error("TypeError"))
  ELSE IF Len(Elems(beta_ord_rep)) = 0 THEN Error("ValueError")
  ELSE
    LET type_str == Elems(beta_ord_rep)[1]
        args == Tail(Elems(beta_ord_rep))
    IN  IF type_str = Str("pow") THEN
          IF Len(args) = 0 THEN Error("IndexError")
          ELSE IF args[1] = ORDINAL_ZERO THEN Value(IntV(2))
          ELSE Value(Tup(<<Str("sum"), beta_ord_rep, IntV(1), ORDINAL_ONE>>))
        ELSE IF type_str = Str("sum") THEN
          IF Len(args) # 3 THEN Error("ValueError")
          ELSE LET d == add_one_to_ordinal_WholeBeta(args[3])
               IN  IF d.err # "none" THEN d
                   ELSE Value(Tup(<<Str("sum"), args[1], args[2], d.val>>))
        ELSE Error("TypeError")

add_one_to_ordinal(beta_ord_rep) ==
  IF is_finite_ordinal(beta_ord_rep) THEN Value(IntV(beta_ord_rep[2] + 1))
  \* type_str, *args = beta_ord_rep
  ELSE IF beta_ord_rep = NoneVal THEN Error("TypeError")
  ELSE IF IsStr(beta_ord_rep)
    THEN (IF beta_ord_rep[2] = "" THEN Error("ValueError") ELSE Error("TypeError"))
  ELSE IF Len(Elems(beta_ord_rep)) = 0 THEN Error("ValueError")
  ELSE
    LET type_str == Elems(beta_ord_rep)[1]
        args == Tail(Elems(beta_ord_rep))
    IN  IF type_str = Str("pow") THEN
          IF Len(args) = 0 THEN Error("IndexError")
          ELSE IF args[1] = ORDINAL_ZERO THEN Value(IntV(2))
          ELSE Value(Tup(<<Str("sum"), args[1], IntV(1), ORDINAL_ONE>>))
        ELSE IF type_str = Str("sum") THEN
          IF Len(args) # 3 THEN Error("ValueError")
          ELSE LET d == add_one_to_ordinal(args[3])
               IN  IF d.err # "none" THEN d
                   ELSE Value(Tup(<<Str("sum"), args[1], args[2], d.val>>))
        ELSE Error("TypeError")

RECURSIVE f(_, _, _)

\* faulty variant: rule 2a with the sign of its constant flipped, (3j + 2) / j
f_pow_SignSlip(args, m, lim) ==
  IF Len(args) = 0 THEN Raise("IndexError", m, 0)
  ELSE
    LET k_rep == args[1]
    IN  IF is_finite_ordinal(k_rep) THEN
          IF k_rep = ORDINAL_ZERO THEN Nested(f(ORDINAL_ONE, m, lim - 1), 0)
          ELSE Return(Rat(3 * k_rep[2] + 2, k_rep[2]), m, 0)
        ELSE
          LET r == Nested(f(k_rep, m, lim - 1), 0)
              denominator == RSub(RInt(9), r.val)
          IN  IF r.err # "none" THEN r
              ELSE IF NearZero(denominator) THEN Raise("ValueError", r.memo, r.calls)
              ELSE Return(RDiv(RSub(RInt(25), r.val), denominator), r.memo, r.calls)

\* alpha = ('pow', k_rep, ...): rules 2a and 2b
f_pow(args, m, lim) ==
  IF Len(args) = 0 THEN Raise("IndexError", m, 0)
  ELSE
    LET k_rep == args[1]
    IN  IF is_finite_ordinal(k_rep) THEN
          IF k_rep = ORDINAL_ZERO THEN Nested(f(ORDINAL_ONE, m, lim - 1), 0)
          ELSE Return(Rat(3 * k_rep[2] - 2, k_rep[2]), m, 0)
        ELSE
          LET r == Nested(f(k_rep, m, lim - 1), 0)
              denominator == RSub(RInt(9), r.val)
          IN  IF r.err # "none" THEN r
              ELSE IF NearZero(denominator) THEN Raise("ValueError", r.memo, r.calls)
              ELSE Return(RDiv(RSub(RInt(25), r.val), denominator), r.memo, r.calls)

\* alpha = ('sum', beta_rep, c_int, delta_rep, ...)
f_sum(args, m, lim) ==
  IF Len(args) < 3 THEN Raise("IndexError", m, 0)
  ELSE
    LET beta_rep == args[1]
        c_int == args[2]
        delta_rep == args[3]
    IN  IF ~(IsInt(c_int) /\ c_int[2] >= 1) THEN Raise("ValueError", m, 0)
        ELSE
          LET beta_plus_1_rep == add_one_to_ordinal(beta_rep)
              r1 == Nested(f(Pow(beta_rep), m, lim - 1), 0)
              r2 == Nested(f(Pow(beta_plus_1_rep.val), r1.memo, lim - 1), r1.calls)
              f_omega_beta == r1.val
              f_omega_beta_plus_1 == r2.val
              f_c_minus_1 == f_finite(IntV(c_int[2] - 1)).val
              f_omega_beta_times_c ==
                RAdd(f_omega_beta,
                     RMul(RSub(f_omega_beta_plus_1, f_omega_beta), f_c_minus_1))
              f_c_int == f_finite(c_int).val
              f_omega_beta_times_c_plus_1_coeff ==
                RAdd(f_omega_beta,
                     RMul(RSub(f_omega_beta_plus_1, f_omega_beta), f_c_int))
              r3 == Nested(f(delta_rep, r2.memo, lim - 1), r2.calls)
          IN  IF beta_plus_1_rep.err # "none" THEN Raise(beta_plus_1_rep.err, m, 0)
              ELSE IF r1.err # "none" THEN r1
              ELSE IF r2.err # "none" THEN r2
              ELSE IF delta_rep = ORDINAL_ZERO
                THEN Return(f_omega_beta_times_c, r2.memo, r2.calls)
              ELSE IF r3.err # "none" THEN r3
              ELSE IF NearZero(f_omega_beta) THEN Raise("ValueError", r3.memo, r3.calls)
              ELSE Return(
                     RAdd(f_omega_beta_times_c,
                          RDiv(RMul(RSub(f_omega_beta_times_c_plus_1_coeff,
                                         f_omega_beta_times_c), r3.val),
                               f_omega_beta)),
                     r3.memo, r3.calls)

\* the body of f after the cache lookup has missed
f_compute(alpha_rep, m, lim) ==
  IF is_finite_ordinal(alpha_rep) THEN
    LET r == f_finite(alpha_rep)
    IN  IF r.err # "none" THEN Raise(r.err, m, 0) ELSE Return(r.val, m, 0)
  \* type_str, *args = alpha_rep
  ELSE IF Len(Elems(alpha_rep)) = 0 THEN Raise("ValueError", m, 0)
  ELSE
    LET type_str == Elems(alpha_rep)[1]
        args == Tail(Elems(alpha_rep))
    IN  IF type_str = Str("pow") THEN f_pow(args, m, lim)
        ELSE IF type_str = Str("sum") THEN f_sum(args, m, lim)
        ELSE Raise("TypeError", m, 0)

\* memo[memo_key] = result
Store(m, memo_key, result) ==
  [k \in DOMAIN m \cup {memo_key} |-> IF k = memo_key THEN result ELSE m[k]]

\* faulty variant: the cache is never consulted
f_NoLookup(alpha_rep, m, lim) ==
  IF lim = 0 THEN Unwind(Raise("RecursionError", m, 0), alpha_rep)
  ELSE IF ~(IsInt(alpha_rep) \/ IsTuple(alpha_rep))
    THEN Unwind(Raise("TypeError", m, 0), alpha_rep)
  ELSE
    LET r == f_compute(alpha_rep, m, lim)
    IN  IF r.err # "none" THEN Unwind(r, alpha_rep)
        ELSE [r EXCEPT !.memo = Store(r.memo, alpha_rep, r.val)]

\* faulty variant: the initial result 0.0 is stored when the computation raises
f_StoresOnError(alpha_rep, m, lim) ==
  IF lim = 0 THEN Unwind(Raise("RecursionError", m, 0), alpha_rep)
  ELSE IF ~(IsInt(alpha_rep) \/ IsTuple(alpha_rep))
    THEN Unwind(Raise("TypeError", m, 0), alpha_rep)
  ELSE IF alpha_rep \in DOMAIN m THEN Return(m[alpha_rep], m, 0)
  ELSE
    LET r == f_compute(alpha_rep, m, lim)
    IN  IF r.err # "none"
          THEN [Unwind(r, alpha_rep) EXCEPT !.memo = Store(r.memo, alpha_rep, RZero)]
          ELSE [r EXCEPT !.memo = Store(r.memo, alpha_rep, r.val)]

\* f(alpha_rep) run against cache m with lim frames of recursion left
f(alpha_rep, m, lim) ==
  IF lim = 0 THEN Unwind(Raise("RecursionError", m, 0), alpha_rep)
  ELSE IF ~(IsInt(alpha_rep) \/ IsTuple(alpha_rep))
    THEN Unwind(Raise("TypeError", m, 0), alpha_rep)
  ELSE IF alpha_rep \in DOMAIN m THEN Return(m[alpha_rep], m, 0)
  ELSE
    LET r == f_compute(alpha_rep, m, lim)
    IN  IF r.err # "none" THEN Unwind(r, alpha_rep)
        ELSE [r EXCEPT !.memo = Store(r.memo, alpha_rep, r.val)]

EmptyMemo == [k \in {} |-> RZero]

(***************************************************************************)
(* The representations handed to f.                                        *)
(***************************************************************************)
omega_rep == Pow(ORDINAL_ONE)
omega_omega_rep == Pow(omega_rep)
omega_omega_omega_rep == Pow(omega_omega_rep)

CanonicalReps ==
  {IntV(n) : n \in 0..MaxFinite}
  \cup {Pow(IntV(j)) : j \in 1..MaxFinite}
  \cup {omega_omega_rep, omega_omega_omega_rep}
  \cup {Sum(ORDINAL_ONE, c, IntV(d)) : c \in 2..MaxCoeff, d \in 0..1}
  \cup {Sum(ORDINAL_ONE, 1, ORDINAL_ZERO),
        Sum(IntV(2), 2, ORDINAL_ZERO),
        Sum(IntV(2), 1, omega_rep),
        Sum(omega_rep, 1, ORDINAL_ONE),
        Sum(Sum(ORDINAL_ONE, 1, ORDINAL_ONE), 1, ORDINAL_ZERO)}

\* finite ordinals written as tuples: omega^0, omega^(omega^0), omega^0 * c
FiniteAsTupleReps ==
  {Pow(ORDINAL_ZERO), Pow(Pow(ORDINAL_ZERO))}
  \cup {Sum(ORDINAL_ZERO, c, ORDINAL_ZERO) : c \in 2..MaxCoeff}

\* neither int nor tuple, unknown tag, wrong arity; at top level and nested
MalformedReps ==
  {NoneVal, Tup(<<>>), Tup(<<Str("pow")>>),
   Tup(<<Str("pow"), ORDINAL_ONE, ORDINAL_ZERO>>),
   Tup(<<Str("sum"), ORDINAL_ONE, IntV(2)>>),
   Tup(<<Str("sum"), ORDINAL_ONE, IntV(2), ORDINAL_ZERO, ORDINAL_ZERO>>),
   Tup(<<Str("foo"), ORDINAL_ONE>>),
   Sum(Tup(<<Str("foo"), ORDINAL_ONE>>), 1, ORDINAL_ZERO),
   Sum(ORDINAL_ONE, 1, Tup(<<Str("pow")>>))}

\* negative integers as finite ordinals, coefficients that are no integer >= 1
InvalidNumberReps ==
  {IntV(-1), Pow(IntV(-1)),
   Sum(IntV(-1), 1, ORDINAL_ZERO),
   Sum(ORDINAL_ONE, 1, IntV(-1)),
   Sum(IntV(-1), 1, IntV(-1)),
   Sum(ORDINAL_ONE, 0, ORDINAL_ZERO),
   Tup(<<Str("sum"), ORDINAL_ONE, NoneVal, ORDINAL_ZERO>>),
   Sum(IntV(2), 1, Sum(ORDINAL_ONE, 0, ORDINAL_ZERO))}

Inputs == CanonicalReps \cup FiniteAsTupleReps \cup MalformedReps \cup InvalidNumberReps

(***************************************************************************)
(* The program: one process, the cache memo, and calls of f from outside.  *)
(* last is the outcome of the latest call, returned the values that calls  *)
(* from outside have returned so far (with how many times).                *)
(***************************************************************************)
NoCall ==
  [arg |-> NoneVal, err |-> "none", val |-> RZero, calls |-> 0,
   aborted |-> {}, before |-> EmptyMemo]
NoSuccessor == [arg |-> NoneVal, err |-> "idle", val |-> NoneVal]

Init ==
  /\ memo = EmptyMemo
  /\ last = NoCall
  /\ returned = [k \in {} |-> [val |-> RZero, times |-> 0]]
  /\ ncalls = 0
  /\ succ = NoSuccessor
  /\ steps = 0

\* a call f(alpha_rep) from outside
Call(alpha_rep) ==
  /\ ncalls < MaxCalls
  /\ LET r == f(alpha_rep, memo, RecursionLimit)
     IN  /\ memo' = r.memo
         /\ last' = [arg |-> alpha_rep, err |-> r.err, val |-> r.val,
                     calls |-> r.calls, aborted |-> r.aborted, before |-> memo]
         /\ returned' =
              IF r.err # "none" THEN returned
              ELSE [k \in DOMAIN returned \cup {alpha_rep} |->
                      IF k # alpha_rep THEN returned[k]
                      ELSE IF k \in DOMAIN returned
                        THEN [returned[k] EXCEPT !.times = @ + 1]
                        ELSE [val |-> r.val, times |-> 1]]
  /\ ncalls' = ncalls + 1
  /\ UNCHANGED <<succ, steps>>

Next == \E alpha_rep \in Inputs : Call(alpha_rep)

Spec == Init /\ [][Next]_vars

(***************************************************************************)
(* The successor on its own: add_one_to_ordinal applied to a               *)
(* representation, and again to what it returned.                          *)
(***************************************************************************)
InitSucc ==
  /\ memo = EmptyMemo
  /\ last = NoCall
  /\ returned = [k \in {} |-> [val |-> RZero, times |-> 0]]
  /\ ncalls = 0
  /\ \E beta_ord_rep \in Inputs :
       succ = [arg |-> NoneVal, err |-> "idle", val |-> beta_ord_rep]
  /\ steps = 0

Successor ==
  /\ steps < MaxSteps
  /\ succ.err \in {"idle", "none"}
  /\ LET r == add_one_to_ordinal(succ.val)
     IN  succ' = [arg |-> succ.val, err |-> r.err,
                  val |-> IF r.err = "none" THEN r.val ELSE succ.val]
  /\ steps' = steps + 1
  /\ UNCHANGED <<memo, last, returned, ncalls>>

NextSucc == Successor

SpecSucc == InitSucc /\ [][NextSucc]_vars

(***************************************************************************)
(* Ordinals below epsilon_0 in Cantor normal form, to state the claims:    *)
(* a sequence of <<exponent, coefficient>> with strictly decreasing        *)
(* exponents (themselves such sequences) and coefficients >= 1.            *)
(***************************************************************************)
OrdZero == <<>>
OrdOne == << <<OrdZero, 1>> >>

\* -1, 0, 1 as a < b, a = b, a > b
RECURSIVE OrdCmp(_, _)
OrdCmp(a, b) ==
  IF Len(a) = 0 /\ Len(b) = 0 THEN 0
  ELSE IF Len(a) = 0 THEN -1
  ELSE IF Len(b) = 0 THEN 1
  ELSE LET e == OrdCmp(a[1][1], b[1][1])
       IN  IF e # 0 THEN e
           ELSE IF a[1][2] < b[1][2] THEN -1
           ELSE IF a[1][2] > b[1][2] THEN 1
           ELSE OrdCmp(Tail(a), Tail(b))

OrdLess(a, b) == OrdCmp(a, b) = -1

\* ordinal addition: the terms of a below b's leading exponent are absorbed
OrdAdd(a, b) ==
  IF Len(b) = 0 THEN a
  ELSE LET e == b[1][1]
           above == SelectSeq(a, LAMBDA t : OrdCmp(t[1], e) = 1)
           same == SelectSeq(a, LAMBDA t : OrdCmp(t[1], e) = 0)
       IN  IF Len(same) > 0
             THEN above \o << <<e, same[1][2] + b[1][2]>> >> \o Tail(b)
             ELSE above \o b

\* the shapes of the conventions: n, ('pow', k), ('sum', beta, c, delta)
RECURSIVE Shaped(_)
Shaped(v) ==
  \/ IsInt(v)
  \/ /\ IsTuple(v)
     /\ Len(Elems(v)) = 2
     /\ Elems(v)[1] = Str("pow")
     /\ Shaped(Elems(v)[2])
  \/ /\ IsTuple(v)
     /\ Len(Elems(v)) = 4
     /\ Elems(v)[1] = Str("sum")
     /\ Shaped(Elems(v)[2])
     /\ Shaped(Elems(v)[4])

\* the ordinal a representation with valid numbers denotes
RECURSIVE Denote(_)
Denote(v) ==
  IF IsInt(v) THEN (IF v[2] = 0 THEN OrdZero ELSE << <<OrdZero, v[2]>> >>)
  ELSE IF Elems(v)[1] = Str("pow") THEN << <<Denote(Elems(v)[2]), 1>> >>
  ELSE OrdAdd(<< <<Denote(Elems(v)[2]), Elems(v)[3][2]>> >>, Denote(Elems(v)[4]))

\* non-negative integers, c >= 1, delta < omega^beta, sub-terms well-formed
RECURSIVE WellFormed(_)
WellFormed(v) ==
  /\ Shaped(v)
  /\ \/ IsInt(v) /\ v[2] >= 0
     \/ /\ IsTuple(v)
        /\ Elems(v)[1] = Str("pow")
        /\ WellFormed(Elems(v)[2])
     \/ /\ IsTuple(v)
        /\ Elems(v)[1] = Str("sum")
        /\ WellFormed(Elems(v)[2])
        /\ IsInt(Elems(v)[3]) /\ Elems(v)[3][2] >= 1
        /\ WellFormed(Elems(v)[4])
        /\ OrdLess(Denote(Elems(v)[4]), << <<Denote(Elems(v)[2]), 1>> >>)

\* the rational q equals n/d
REq(q, n, d) == q[1] * d = n * q[2]

Called == ncalls >= 1
Fresh(alpha_rep) == f(alpha_rep, EmptyMemo, RecursionLimit)

(***************************************************************************)
(* C1: strict order-embedding.  For any two well-formed representations    *)
(* a and b that f has returned a value for, if the ordinal a denotes is    *)
(* strictly smaller than the ordinal b denotes then f(a) < f(b).           *)
(***************************************************************************)
C1_StrictOrderEmbedding ==
  \A a \in DOMAIN returned, b \in DOMAIN returned :
    (WellFormed(a) /\ WellFormed(b) /\ OrdLess(Denote(a), Denote(b)))
      => RLess(returned[a].val, returned[b].val)

(***************************************************************************)
(* C2: f returns the documented values exactly: n/(n+1) for an integer     *)
(* n >= 0, 1/2 for omega^0, (3j-2)/j for omega^j with finite j >= 1, and   *)
(* the listed values of omega^omega, omega^omega^omega, omega*2, omega*3,  *)
(* omega*2+1, omega^2*2 and omega^2+omega.                                 *)
(***************************************************************************)
Oracle ==
  {<<omega_omega_rep, 3, 1>>,
   <<omega_omega_omega_rep, 11, 3>>,
   <<Sum(ORDINAL_ONE, 2, ORDINAL_ZERO), 3, 2>>,
   <<Sum(ORDINAL_ONE, 3, ORDINAL_ZERO), 5, 3>>,
   <<Sum(ORDINAL_ONE, 2, ORDINAL_ONE), 19, 12>>,
   <<Sum(IntV(2), 2, ORDINAL_ZERO), 13, 6>>,
   <<Sum(IntV(2), 1, omega_rep), 25, 12>>,
   <<Pow(ORDINAL_ZERO), 1, 2>>}

C2_OracleValues ==
  Called =>
    /\ (IsInt(last.arg) /\ last.arg[2] >= 0) =>
         (last.err = "none" /\ REq(last.val, last.arg[2], last.arg[2] + 1))
    /\ \A j \in 1..MaxFinite :
         last.arg = Pow(IntV(j)) =>
           (last.err = "none" /\ REq(last.val, 3 * j - 2, j))
    /\ \A o \in Oracle :
         last.arg = o[1] => (last.err = "none" /\ REq(last.val, o[2], o[3]))

C2_Witness ==
  /\ ncalls = 2
  /\ last.arg = Sum(ORDINAL_ONE, 2, ORDINAL_ONE)
  /\ last.err = "none"
  /\ omega_omega_omega_rep \in DOMAIN returned

(***************************************************************************)
(* C3: memoization is transparent.  In every call: if f has returned v for *)
(* the argument before, the call returns v, makes no recursive call of f   *)
(* and leaves the cache as it was; the value returned is the value an      *)
(* evaluation from an empty cache returns; and no cache entry is removed   *)
(* or overwritten with another value.                                      *)
(***************************************************************************)
C3_Step ==
  /\ last'.arg \in DOMAIN returned =>
       /\ last'.err = "none"
       /\ last'.val = returned[last'.arg].val
       /\ last'.calls = 0
       /\ memo' = memo
  /\ last'.err = "none" =>
       (Fresh(last'.arg).err = "none" /\ last'.val = Fresh(last'.arg).val)
  /\ \A k \in DOMAIN memo : k \in DOMAIN memo' /\ memo'[k] = memo[k]

C3_MemoizationTransparent == [][C3_Step]_vars

C3_Witness ==
  \E a \in DOMAIN returned :
    /\ returned[a].times >= 2
    /\ last.arg = a
    /\ IsTuple(a) /\ Elems(a)[1] = Str("sum")
    /\ last.calls = 0

(***************************************************************************)
(* C4: every malformed representation passed to f (neither integer nor     *)
(* tuple, unknown tag, wrong arity, at top level or nested in an exponent  *)
(* or remainder) is rejected with a type error.                            *)
(***************************************************************************)
RECURSIVE Malformed(_)
Malformed(v) ==
  /\ ~IsInt(v)
  /\ \/ ~IsTuple(v)
     \/ Len(Elems(v)) = 0
     \/ Elems(v)[1] \notin {Str("pow"), Str("sum")}
     \/ Elems(v)[1] = Str("pow") /\ Len(Elems(v)) # 2
     \/ Elems(v)[1] = Str("sum") /\ Len(Elems(v)) # 4
     \/ Elems(v)[1] = Str("pow") /\ Malformed(Elems(v)[2])
     \/ Elems(v)[1] = Str("sum") /\ (Malformed(Elems(v)[2]) \/ Malformed(Elems(v)[4]))

C4_MalformedIsTypeError ==
  (Called /\ Malformed(last.arg)) => last.err = "TypeError"

(***************************************************************************)
(* C5: every invalid numeric field makes f raise a value error: a negative *)
(* integer as a finite ordinal (the argument, the exponent of a 'pow', the *)
(* exponent of a 'sum', a non-zero remainder) or a 'sum' coefficient that  *)
(* is no integer >= 1.                                                     *)
(***************************************************************************)
RECURSIVE InvalidNumber(_)
InvalidNumber(v) ==
  /\ Shaped(v)
  /\ \/ IsInt(v) /\ v[2] < 0
     \/ IsTuple(v) /\ Elems(v)[1] = Str("pow") /\ InvalidNumber(Elems(v)[2])
     \/ /\ IsTuple(v) /\ Elems(v)[1] = Str("sum")
        /\ \/ ~(IsInt(Elems(v)[3]) /\ Elems(v)[3][2] >= 1)
           \/ InvalidNumber(Elems(v)[2])
           \/ InvalidNumber(Elems(v)[4])

C5_InvalidNumberIsValueError ==
  (Called /\ InvalidNumber(last.arg)) => last.err = "ValueError"

(***************************************************************************)
(* C6: a failing call leaves no bogus cache entry.  When f(a) raises, the  *)
(* cache holds no entry for a nor for any representation whose evaluation  *)
(* the exception aborted, the entries it held before are as they were, and *)
(* every entry added during the call maps a representation to the value a  *)
(* completed evaluation of that representation returns.                    *)
(***************************************************************************)
C6_NoBogusEntry ==
  (Called /\ last.err # "none") =>
    /\ last.arg \notin DOMAIN memo
    /\ last.arg \in last.aborted
    /\ \A k \in last.aborted : k \notin DOMAIN memo
    /\ \A k \in DOMAIN last.before :
         k \in DOMAIN memo /\ memo[k] = last.before[k]
    /\ \A k \in DOMAIN memo \ DOMAIN last.before :
         Fresh(k).err = "none" /\ memo[k] = Fresh(k).val

C6_Witness ==
  /\ last.arg = Sum(IntV(2), 1, Sum(ORDINAL_ONE, 0, ORDINAL_ZERO))
  /\ last.err = "ValueError"
  /\ last.aborted = {last.arg, Sum(ORDINAL_ONE, 0, ORDINAL_ZERO)}
  /\ DOMAIN last.before # {}
  /\ Pow(IntV(3)) \in DOMAIN memo \ DOMAIN last.before

(***************************************************************************)
(* C7: the degenerate-denominator error is unreachable on well-formed      *)
(* input.  For a well-formed a, 0 <= f(a) < 5; f(('pow', beta)) >= 1/2;    *)
(* every transfinite exponent k that f recursed into has 9 - f(k) > 4 and  *)
(* every divisor f(omega^beta) of a 'sum' is >= 1/2; and the call raises   *)
(* no value error.                                                         *)
(***************************************************************************)
C7_Bounds ==
  /\ (Called /\ WellFormed(last.arg)) => last.err # "ValueError"
  /\ \A a \in DOMAIN memo :
       WellFormed(a) =>
         /\ RLeq(RZero, memo[a]) /\ RLess(memo[a], RInt(5))
         /\ (IsTuple(a) /\ Elems(a)[1] = Str("pow")) =>
              /\ RLeq(<<1, 2>>, memo[a])
              /\ ~IsInt(Elems(a)[2]) =>
                   /\ Elems(a)[2] \in DOMAIN memo
                   /\ RLess(RInt(4), RSub(RInt(9), memo[Elems(a)[2]]))
         /\ (IsTuple(a) /\ Elems(a)[1] = Str("sum")) =>
              /\ Pow(Elems(a)[2]) \in DOMAIN memo
              /\ RLeq(<<1, 2>>, memo[Pow(Elems(a)[2])])

C7_Witness ==
  /\ omega_omega_omega_rep \in DOMAIN memo
  /\ Sum(omega_rep, 1, ORDINAL_ONE) \in DOMAIN memo
  /\ last.err = "none"

(***************************************************************************)
(* C8: f is total on well-formed representations.  No call recurses past   *)
(* the recursion limit; a call on a well-formed representation returns a   *)
(* value, also when it recurses into ('pow', successor(beta)), which is no *)
(* sub-term of the input.                                                  *)
(***************************************************************************)
C8_Total ==
  Called =>
    /\ last.err # "RecursionError"
    /\ WellFormed(last.arg) => last.err = "none"

C8_Witness ==
  /\ last.arg = Sum(Sum(ORDINAL_ONE, 1, ORDINAL_ONE), 1, ORDINAL_ZERO)
  /\ last.err = "none"
  /\ last.before = EmptyMemo
  /\ Pow(Sum(ORDINAL_ONE, 1, IntV(2))) \in DOMAIN memo

(***************************************************************************)
(* C9: add_one_to_ordinal returns a representation of beta+1 for every     *)
(* well-formed beta: n -> n+1, ('pow', 0) -> 2, ('pow', k) -> ('sum', k,   *)
(* 1, 1), ('sum', e, c, r) -> ('sum', e, c, successor(r)); the result is   *)
(* well-formed and denotes the ordinal right after beta.                   *)
(***************************************************************************)
C9_SuccessorWellFormed ==
  (steps >= 1 /\ WellFormed(succ.arg)) =>
    /\ succ.err = "none"
    /\ IsInt(succ.arg) => succ.val = IntV(succ.arg[2] + 1)
    /\ succ.arg = Pow(ORDINAL_ZERO) => succ.val = IntV(2)
    /\ (IsTuple(succ.arg) /\ Elems(succ.arg)[1] = Str("pow")
          /\ Elems(succ.arg)[2] # ORDINAL_ZERO) =>
         succ.val = Sum(Elems(succ.arg)[2], 1, ORDINAL_ONE)
    /\ (IsTuple(succ.arg) /\ Elems(succ.arg)[1] = Str("sum")) =>
         /\ Elems(succ.val)[1] = Str("sum")
         /\ Elems(succ.val)[2] = Elems(succ.arg)[2]
         /\ Elems(succ.val)[3] = Elems(succ.arg)[3]
         /\ Elems(succ.val)[4] = add_one_to_ordinal(Elems(succ.arg)[4]).val
    /\ WellFormed(succ.val)
    /\ OrdCmp(Denote(succ.val), OrdAdd(Denote(succ.arg), OrdOne)) = 0

(***************************************************************************)
(* C10: f depends only on the ordinal denoted.  Two well-formed            *)
(* representations of the same ordinal that f has returned a value for     *)
(* got the same value; so f(('pow', 0)) = f(1), f(('sum', beta, 1, 0)) =   *)
(* f(('pow', beta)) and f(('sum', 0, c, 0)) = f(c).                        *)
(***************************************************************************)
C10_SameOrdinalSameValue ==
  \A a \in DOMAIN returned, b \in DOMAIN returned :
    (WellFormed(a) /\ WellFormed(b) /\ OrdCmp(Denote(a), Denote(b)) = 0)
      => returned[a].val = returned[b].val
=============================================================================
